---- MODULE Spec2Model ----
(***************************************************************************)
(* A model of the draw_state crate: the fixed-function state primitives    *)
(* (src/src/state.rs), the blend presets (src/src/preset.rs) and the       *)
(* DrawState aggregate with its builders (src/src/lib.rs).                 *)
(*                                                                         *)
(* Rust values are modelled as follows.                                    *)
(*   Option<T>      None is <<>>, Some(x) is <<x>>                         *)
(*   enum variants  strings; a variant with a payload is a tuple whose     *)
(*                  head is the variant name: <<"ZeroPlus", "DestColor">>  *)
(*   structs        records with the source's field names                  *)
(*   [T; 4]         a 4-tuple; Rust index i is TLA+ index i + 1            *)
(*   bit flag sets  sets of flag names; | is \cup, empty() is {}           *)
(*   u8 / u16 / i32 integers in the type's range                           *)
(*   f32            integers for the constants 0f32; half-units for the    *)
(*                  slope argument of with_offset                          *)
(***************************************************************************)
EXTENDS Integers, Sequences, FiniteSets, TLC

VARIABLES ds, prev, call, ncalls, tmask, start, hist, pop, pargs, pin, pout, rops

vars == <<ds, prev, call, ncalls, tmask, start, hist, pop, pargs, pin, pout, rops>>

dsVars == <<ds, prev, call, ncalls, tmask, start, hist>>
primVars == <<pop, pargs, pin, pout, rops>>

----------------------------------------------------------------------------
(* Bounds of the model.                                                    *)

\* The builder arguments of type Comparison are the first NumFun variants.
NumFun == 2
\* Stencil reference values passed to the stencil builder: 0..MaxRef.
MaxRef == 1
\* Scissor rectangles passed to the scissor builder: one per 0..MaxCoord.
MaxCoord == 1
\* Calls applied to one DrawState the caller built field by field.
MaxCalls == 2
\* Calls applied to the DrawState of DrawState::new().
MaxNewCalls == 3
\* Builder calls of one recorded chain in the specification SpecChain.
MaxChain == 3
\* Stencil masks passed to Stencil::new: 0..MaxMask and the full mask.
MaxMask == 1
\* Stencil operations passed to Stencil::new: the first NumOps variants.
NumOps == 3
\* In SpecPrim a constructor is called among the first MaxConstr calls of a
\* behaviour; the later calls are Rasterizer methods.
MaxConstr == 1
\* Rasterizer method calls after one construction in SpecPrim.
MaxRastOps == 2
\* Polygon offset arguments of with_offset: slopes in half-units
\* -MaxSlope..MaxSlope, units 0..MaxUnits.
MaxSlope == 2
MaxUnits == 1

Min(a, b) == IF a < b THEN a ELSE b

----------------------------------------------------------------------------
(* Option<T>                                                               *)

None == <<>>
Some(x) == <<x>>
is_some(o) == o # None
unwrap(o) == o[1]

----------------------------------------------------------------------------
(* src/src/target.rs                                                       *)

\* target::Stencil = u8; Stencil::max_value()
Stencil_max_value == 255

Rect(x, y, w, h) == [x |-> x, y |-> y, w |-> w, h |-> h]

\* The flags of target::Mask.
MaskFlags == {"STENCIL", "DEPTH", "COLOR0", "COLOR1", "COLOR2", "COLOR3"}
Mask_empty == {}

----------------------------------------------------------------------------
(* src/src/state.rs: enumerations                                          *)

FrontFace == {"Clockwise", "CounterClockwise"}
CullFace == {"Nothing", "Front", "Back"}
ComparisonSeq ==
    <<"Never", "Less", "LessEqual", "Equal", "GreaterEqual", "Greater",
      "NotEqual", "Always">>
Comparison == {ComparisonSeq[i] : i \in 1..Len(ComparisonSeq)}
StencilOpSeq ==
    <<"Keep", "Zero", "Replace", "IncrementClamp", "IncrementWrap",
      "DecrementClamp", "DecrementWrap", "Invert">>
StencilOp == {StencilOpSeq[i] : i \in 1..Len(StencilOpSeq)}
Equation == {"Add", "Sub", "RevSub", "Min", "Max"}
BlendValue ==
    {"SourceColor", "SourceAlpha", "DestColor", "DestAlpha", "ConstColor",
     "ConstAlpha"}
Factor ==
    {<<"Zero">>, <<"One">>, <<"SourceAlphaSaturated">>}
        \cup {<<"ZeroPlus", v>> : v \in BlendValue}
        \cup {<<"OneMinus", v>> : v \in BlendValue}
MultiSample == "MultiSample"

\* bitflags ColorMask; state::MASK_ALL is every flag of it.
ColorMaskFlags == {"RED", "GREEN", "BLUE", "ALPHA"}
MASK_ALL == ColorMaskFlags

----------------------------------------------------------------------------
(* src/src/state.rs: Rasterizer                                            *)

Rasterizer_new_fill ==
    [front_face |-> "CounterClockwise",
     cull_face |-> "Nothing",
     method |-> <<"Fill">>,
     offset |-> None,
     samples |-> None]

\* with_cull_back completing the struct from new_fill() instead of self.
Rasterizer_with_cull_back_fresh(self) ==
    [Rasterizer_new_fill EXCEPT !.cull_face = "Back"]

Rasterizer_with_cull_back(self) == [self EXCEPT !.cull_face = "Back"]

\* `slope as OffsetSlope`: an f32 to i32 cast truncates toward zero.  The
\* slope is given in half-units.
f32_as_i32(halves) == IF halves >= 0 THEN halves \div 2 ELSE -((-halves) \div 2)

Rasterizer_with_offset(self, slope, units) ==
    [self EXCEPT !.offset = Some(<<f32_as_i32(slope), units>>)]

----------------------------------------------------------------------------
(* src/src/state.rs: StencilSide, Stencil, Depth                           *)

StencilSide_default ==
    [fun |-> "Always",
     mask_read |-> Stencil_max_value,
     mask_write |-> Stencil_max_value,
     op_fail |-> "Keep",
     op_depth_fail |-> "Keep",
     op_pass |-> "Keep"]

\* Stencil::new with the fail and pass operations exchanged.
Stencil_new_swapped(fun, mask, ops) ==
    LET side == [fun |-> fun,
                 mask_read |-> mask,
                 mask_write |-> mask,
                 op_fail |-> ops[3],
                 op_depth_fail |-> ops[2],
                 op_pass |-> ops[1]]
    IN  [front |-> side, back |-> side]

Stencil_new(fun, mask, ops) ==
    LET side == [fun |-> fun,
                 mask_read |-> mask,
                 mask_write |-> mask,
                 op_fail |-> ops[1],
                 op_depth_fail |-> ops[2],
                 op_pass |-> ops[3]]
    IN  [front |-> side, back |-> side]

----------------------------------------------------------------------------
(* src/src/state.rs: BlendChannel, Blend, RefValues                        *)

BlendChannel(eq, src, dst) == [equation |-> eq, source |-> src, destination |-> dst]

\* Blend::new leaving the alpha channel at BlendChannel::default().
Blend_new_coloronly(eq, src, dst) ==
    [color |-> BlendChannel(eq, src, dst),
     alpha |-> BlendChannel("Add", <<"One">>, <<"Zero">>)]

Blend_new(eq, src, dst) ==
    LET chan == BlendChannel(eq, src, dst)
    IN  [color |-> chan, alpha |-> chan]

RefValues_default == [stencil |-> <<0, 0>>, blend |-> <<0, 0, 0, 0>>]

----------------------------------------------------------------------------
(* src/src/preset.rs: preset::blend and preset::depth                      *)

blend_REPLACE ==
    [color |-> BlendChannel("Add", <<"One">>, <<"Zero">>),
     alpha |-> BlendChannel("Add", <<"One">>, <<"Zero">>)]

blend_ADD ==
    [color |-> BlendChannel("Add", <<"One">>, <<"One">>),
     alpha |-> BlendChannel("Add", <<"One">>, <<"One">>)]

blend_MULTIPLY ==
    [color |-> BlendChannel("Add", <<"ZeroPlus", "DestColor">>, <<"Zero">>),
     alpha |-> BlendChannel("Add", <<"ZeroPlus", "DestAlpha">>, <<"Zero">>)]

blend_ALPHA ==
    [color |-> BlendChannel("Add", <<"ZeroPlus", "SourceAlpha">>,
                            <<"OneMinus", "SourceAlpha">>),
     alpha |-> BlendChannel("Add", <<"One">>, <<"One">>)]

blend_INVERT ==
    [color |-> BlendChannel("Sub", <<"ZeroPlus", "ConstColor">>,
                            <<"ZeroPlus", "SourceColor">>),
     alpha |-> BlendChannel("Add", <<"Zero">>, <<"One">>)]

depth_LESS_EQUAL_WRITE == [fun |-> "LessEqual", write |-> TRUE]

----------------------------------------------------------------------------
(* src/src/lib.rs: DrawState                                               *)

MAX_COLOR_TARGETS == 4

BlendPreset == {"Add", "Multiply", "Alpha", "Invert"}

\* DrawState::new() with a rasterizer that culls nothing.
DrawState_new_nocull ==
    [primitive |-> [front_face |-> "CounterClockwise",
                    method |-> <<"Fill", "Nothing">>,
                    offset |-> None],
     multi_sample |-> None,
     scissor |-> None,
     stencil |-> None,
     depth |-> None,
     blend |-> [i \in 1..MAX_COLOR_TARGETS |-> None],
     ref_values |-> RefValues_default]

DrawState_new ==
    [primitive |-> [front_face |-> "CounterClockwise",
                    method |-> <<"Fill", "Back">>,
                    offset |-> None],
     multi_sample |-> None,
     scissor |-> None,
     stencil |-> None,
     depth |-> None,
     blend |-> [i \in 1..MAX_COLOR_TARGETS |-> None],
     ref_values |-> RefValues_default]

\* get_target_mask with the COLOR2 test reading slot 1 (an index slip).
get_target_mask_slip(self) ==
    (IF is_some(self.stencil) THEN {"STENCIL"} ELSE Mask_empty) \cup
    (IF is_some(self.depth) THEN {"DEPTH"} ELSE Mask_empty) \cup
    (IF is_some(self.blend[1]) THEN {"COLOR0"} ELSE Mask_empty) \cup
    (IF is_some(self.blend[2]) THEN {"COLOR1"} ELSE Mask_empty) \cup
    (IF is_some(self.blend[2]) THEN {"COLOR2"} ELSE Mask_empty) \cup
    (IF is_some(self.blend[4]) THEN {"COLOR3"} ELSE Mask_empty)

get_target_mask(self) ==
    (IF is_some(self.stencil) THEN {"STENCIL"} ELSE Mask_empty) \cup
    (IF is_some(self.depth) THEN {"DEPTH"} ELSE Mask_empty) \cup
    (IF is_some(self.blend[1]) THEN {"COLOR0"} ELSE Mask_empty) \cup
    (IF is_some(self.blend[2]) THEN {"COLOR1"} ELSE Mask_empty) \cup
    (IF is_some(self.blend[3]) THEN {"COLOR2"} ELSE Mask_empty) \cup
    (IF is_some(self.blend[4]) THEN {"COLOR3"} ELSE Mask_empty)

\* DrawState::multi_sample completing the struct from new() instead of self.
DrawState_multi_sample_fresh(self) ==
    [DrawState_new EXCEPT !.multi_sample = Some(MultiSample)]

DrawState_multi_sample(self) == [self EXCEPT !.multi_sample = Some(MultiSample)]

\* DrawState::stencil writing the reference value of the front side only.
DrawState_stencil_frontref(self, fun, value) ==
    LET side == [fun |-> fun,
                 mask_read |-> Stencil_max_value,
                 mask_write |-> Stencil_max_value,
                 op_fail |-> "Keep",
                 op_depth_fail |-> "Keep",
                 op_pass |-> "Keep"]
    IN  [self EXCEPT !.stencil = Some([front |-> side, back |-> side]),
                     !.ref_values.stencil = <<value, self.ref_values.stencil[2]>>]

\* DrawState::stencil building the reference values afresh around the
\* stencil pair (RefValues { stencil: .., ..Default::default() }).
DrawState_stencil_resetrefs(self, fun, value) ==
    LET side == [fun |-> fun,
                 mask_read |-> Stencil_max_value,
                 mask_write |-> Stencil_max_value,
                 op_fail |-> "Keep",
                 op_depth_fail |-> "Keep",
                 op_pass |-> "Keep"]
    IN  [self EXCEPT !.stencil = Some([front |-> side, back |-> side]),
                     !.ref_values = [stencil |-> <<value, value>>,
                                     blend |-> <<0, 0, 0, 0>>]]

\* DrawState::stencil updating only the front side and the front reference
\* of a stencil test that is already set.
DrawState_stencil_frontonly(self, fun, value) ==
    LET side == [fun |-> fun,
                 mask_read |-> Stencil_max_value,
                 mask_write |-> Stencil_max_value,
                 op_fail |-> "Keep",
                 op_depth_fail |-> "Keep",
                 op_pass |-> "Keep"]
    IN  IF is_some(self.stencil)
        THEN [self EXCEPT !.stencil = Some([front |-> side,
                                            back |-> unwrap(self.stencil).back]),
                          !.ref_values.stencil =
                              <<value, self.ref_values.stencil[2]>>]
        ELSE [self EXCEPT !.stencil = Some([front |-> side, back |-> side]),
                          !.ref_values.stencil = <<value, value>>]

DrawState_stencil(self, fun, value) ==
    LET side == [fun |-> fun,
                 mask_read |-> Stencil_max_value,
                 mask_write |-> Stencil_max_value,
                 op_fail |-> "Keep",
                 op_depth_fail |-> "Keep",
                 op_pass |-> "Keep"]
    IN  [self EXCEPT !.stencil = Some([front |-> side, back |-> side]),
                     !.ref_values.stencil = <<value, value>>]

DrawState_depth(self, fun, write) ==
    [self EXCEPT !.depth = Some([fun |-> fun, write |-> write])]

\* DrawState::scissor completing the struct from new() instead of self.
DrawState_scissor_fresh(self, x, y, w, h) ==
    [DrawState_new EXCEPT !.scissor = Some(Rect(x, y, w, h))]

DrawState_scissor(self, x, y, w, h) ==
    [self EXCEPT !.scissor = Some(Rect(x, y, w, h))]

\* The match of DrawState::blend with the Invert arm subtracting in reverse.
BlendOfPreset_revsub(preset) ==
    CASE preset = "Add" ->
            [color |-> BlendChannel("Add", <<"One">>, <<"One">>),
             alpha |-> BlendChannel("Add", <<"One">>, <<"One">>),
             mask |-> MASK_ALL]
      [] preset = "Multiply" ->
            [color |-> BlendChannel("Add", <<"ZeroPlus", "DestColor">>, <<"Zero">>),
             alpha |-> BlendChannel("Add", <<"ZeroPlus", "DestAlpha">>, <<"Zero">>),
             mask |-> MASK_ALL]
      [] preset = "Alpha" ->
            [color |-> BlendChannel("Add", <<"ZeroPlus", "SourceAlpha">>,
                                    <<"OneMinus", "SourceAlpha">>),
             alpha |-> BlendChannel("Add", <<"One">>, <<"One">>),
             mask |-> MASK_ALL]
      [] preset = "Invert" ->
            [color |-> BlendChannel("RevSub", <<"ZeroPlus", "ConstColor">>,
                                    <<"ZeroPlus", "SourceColor">>),
             alpha |-> BlendChannel("Add", <<"Zero">>, <<"One">>),
             mask |-> MASK_ALL]

\* The Blend value the match in DrawState::blend builds for a preset.
BlendOfPreset(preset) ==
    CASE preset = "Add" ->
            [color |-> BlendChannel("Add", <<"One">>, <<"One">>),
             alpha |-> BlendChannel("Add", <<"One">>, <<"One">>),
             mask |-> MASK_ALL]
      [] preset = "Multiply" ->
            [color |-> BlendChannel("Add", <<"ZeroPlus", "DestColor">>, <<"Zero">>),
             alpha |-> BlendChannel("Add", <<"ZeroPlus", "DestAlpha">>, <<"Zero">>),
             mask |-> MASK_ALL]
      [] preset = "Alpha" ->
            [color |-> BlendChannel("Add", <<"ZeroPlus", "SourceAlpha">>,
                                    <<"OneMinus", "SourceAlpha">>),
             alpha |-> BlendChannel("Add", <<"One">>, <<"One">>),
             mask |-> MASK_ALL]
      [] preset = "Invert" ->
            [color |-> BlendChannel("Sub", <<"ZeroPlus", "ConstColor">>,
                                    <<"ZeroPlus", "SourceColor">>),
             alpha |-> BlendChannel("Add", <<"Zero">>, <<"One">>),
             mask |-> MASK_ALL]

\* DrawState::blend rebuilding the whole blend array around slot 0.
DrawState_blend_rebuild(self, preset) ==
    [self EXCEPT !.blend =
        [i \in 1..MAX_COLOR_TARGETS |->
            IF i = 1 THEN Some(BlendOfPreset(preset)) ELSE None]]

\* DrawState::blend installing the preset in the first free slot.
DrawState_blend_push(self, preset) ==
    LET free == {i \in 1..MAX_COLOR_TARGETS : self.blend[i] = None}
        slot == IF free = {} THEN 1
                ELSE CHOOSE i \in free : \A j \in free : i <= j
    IN  [self EXCEPT !.blend[slot] = Some(BlendOfPreset(preset))]

\* DrawState::blend installing the preset for every color target
\* (self.blend = [Some(..); MAX_COLOR_TARGETS]).
DrawState_blend_all(self, preset) ==
    [self EXCEPT !.blend =
        [i \in 1..MAX_COLOR_TARGETS |-> Some(BlendOfPreset(preset))]]

DrawState_blend(self, preset) ==
    [self EXCEPT !.blend[1] = Some(BlendOfPreset(preset))]

----------------------------------------------------------------------------
(* Argument sets of the builder calls.                                     *)

FunArgs == {ComparisonSeq[i] : i \in 1..Min(NumFun, Len(ComparisonSeq))}
RefArgs == 0..Min(MaxRef, Stencil_max_value)
\* One rectangle per i, its four fields pairwise different.
ScissorArgs == {<<i, i + 1, i + 2, i + 3>> : i \in 0..MaxCoord}

\* A builder call c is the builder's name followed by its arguments.
\* The DrawState a builder call returns for self.
Apply(self, c) ==
    CASE c[1] = "multi_sample" -> DrawState_multi_sample(self)
      [] c[1] = "stencil" -> DrawState_stencil(self, c[2], c[3])
      [] c[1] = "depth" -> DrawState_depth(self, c[2], c[3])
      [] c[1] = "scissor" -> DrawState_scissor(self, c[2], c[3], c[4], c[5])
      [] c[1] = "blend" -> DrawState_blend(self, c[2])

----------------------------------------------------------------------------
(* DrawState values a caller can build directly: every field is public.    *)

GivenPrimitive ==
    [front_face |-> "Clockwise", method |-> <<"Line", 2>>, offset |-> Some(<<1, 2>>)]
\* A stencil state whose sides differ, built field by field.
GivenStencil ==
    [front |-> [StencilSide_default EXCEPT !.fun = "Less", !.mask_read = 15,
                                           !.op_pass = "Replace"],
     back |-> [StencilSide_default EXCEPT !.mask_write = 240,
                                          !.op_fail = "Zero"]]
GivenRefValues == [stencil |-> <<3, 4>>, blend |-> <<1, 0, 0, 1>>]

\* The six optional stages are present or absent independently; the other
\* fields are all as DrawState::new() sets them or all different from it.
AnyDrawState ==
    [primitive : {DrawState_new.primitive},
     multi_sample : {None},
     scissor : {None},
     stencil : {None, Some(GivenStencil)},
     depth : {None, Some(depth_LESS_EQUAL_WRITE)},
     blend : [1..MAX_COLOR_TARGETS -> {None, Some(blend_REPLACE)}],
     ref_values : {RefValues_default}]
    \cup
    [primitive : {GivenPrimitive},
     multi_sample : {Some(MultiSample)},
     scissor : {Some(Rect(9, 8, 7, 6))},
     stencil : {None, Some(GivenStencil)},
     depth : {None, Some(depth_LESS_EQUAL_WRITE)},
     blend : [1..MAX_COLOR_TARGETS -> {None, Some(blend_REPLACE)}],
     ref_values : {GivenRefValues}]

\* The starting states of the recorded chains: the default state, a state
\* with every field set, and two states with complementary stages set.
ChainStarts ==
    {s \in AnyDrawState :
        \/ s = DrawState_new
        \/ /\ s.primitive = GivenPrimitive
           /\ is_some(s.stencil) /\ is_some(s.depth)
           /\ \A i \in 1..MAX_COLOR_TARGETS : is_some(s.blend[i])
        \/ /\ s.primitive = GivenPrimitive
           /\ ~is_some(s.stencil) /\ is_some(s.depth)
           /\ \A i \in 1..MAX_COLOR_TARGETS : is_some(s.blend[i]) <=> i \in {1, 3}
        \/ /\ s.primitive = DrawState_new.primitive
           /\ is_some(s.stencil) /\ ~is_some(s.depth)
           /\ \A i \in 1..MAX_COLOR_TARGETS : is_some(s.blend[i]) <=> i \in {2, 4}}

----------------------------------------------------------------------------
(* Spec: constructor, builder and query calls on an arbitrary DrawState.   *)
(* ds is the value the caller holds, prev the value the last builder call  *)
(* consumed, call that call (<<"given">> before the first), ncalls the     *)
(* number of calls made, tmask what get_target_mask returned for ds (None  *)
(* until it is asked).                                                     *)

\* The number of calls a behaviour makes: behaviours that begin with the
\* default state are followed further.
CallBudget == IF start = DrawState_new THEN MaxNewCalls ELSE MaxCalls

PrimIdle ==
    /\ pop = "idle" /\ pargs = <<>> /\ pin = None /\ pout = None /\ rops = <<>>

Init ==
    /\ ds \in AnyDrawState
    /\ prev = ds
    /\ call = <<"given">>
    /\ ncalls = 0
    /\ tmask = None
    /\ start = ds
    /\ hist = <<>>
    /\ PrimIdle

new ==
    /\ ncalls < CallBudget
    /\ ds' = DrawState_new
    /\ prev' = ds
    /\ call' = <<"new">>
    /\ ncalls' = ncalls + 1
    /\ tmask' = None
    /\ UNCHANGED <<start, hist, primVars>>

target_mask ==
    /\ tmask = None
    /\ tmask' = Some(get_target_mask(ds))
    /\ UNCHANGED <<ds, prev, call, ncalls, start, hist, primVars>>

multi_sample ==
    /\ ncalls < CallBudget
    /\ ds' = DrawState_multi_sample(ds)
    /\ call' = <<"multi_sample">>
    /\ prev' = ds
    /\ ncalls' = ncalls + 1
    /\ tmask' = None
    /\ UNCHANGED <<start, hist, primVars>>

stencil ==
    /\ ncalls < CallBudget
    /\ \E fun \in FunArgs, value \in RefArgs :
          /\ ds' = DrawState_stencil(ds, fun, value)
          /\ call' = <<"stencil", fun, value>>
    /\ prev' = ds
    /\ ncalls' = ncalls + 1
    /\ tmask' = None
    /\ UNCHANGED <<start, hist, primVars>>

depth ==
    /\ ncalls < CallBudget
    /\ \E fun \in FunArgs, write \in BOOLEAN :
          /\ ds' = DrawState_depth(ds, fun, write)
          /\ call' = <<"depth", fun, write>>
    /\ prev' = ds
    /\ ncalls' = ncalls + 1
    /\ tmask' = None
    /\ UNCHANGED <<start, hist, primVars>>

scissor ==
    /\ ncalls < CallBudget
    /\ \E r \in ScissorArgs :
          /\ ds' = DrawState_scissor(ds, r[1], r[2], r[3], r[4])
          /\ call' = <<"scissor", r[1], r[2], r[3], r[4]>>
    /\ prev' = ds
    /\ ncalls' = ncalls + 1
    /\ tmask' = None
    /\ UNCHANGED <<start, hist, primVars>>

blend ==
    /\ ncalls < CallBudget
    /\ \E preset \in BlendPreset :
          /\ ds' = DrawState_blend(ds, preset)
          /\ call' = <<"blend", preset>>
    /\ prev' = ds
    /\ ncalls' = ncalls + 1
    /\ tmask' = None
    /\ UNCHANGED <<start, hist, primVars>>

Next == new \/ target_mask \/ multi_sample \/ stencil \/ depth \/ scissor \/ blend

Spec == Init /\ [][Next]_vars

\* SpecBuild: builder and query calls only, on an arbitrary DrawState.
NextBuild == target_mask \/ multi_sample \/ stencil \/ depth \/ scissor \/ blend

SpecBuild == Init /\ [][NextBuild]_vars

\* SpecNew: builder and query calls on the DrawState new() returns.
InitNew ==
    /\ ds = DrawState_new
    /\ prev = ds
    /\ call = <<"new">>
    /\ ncalls = 0
    /\ tmask = None
    /\ start = ds
    /\ hist = <<>>
    /\ PrimIdle

SpecNew == InitNew /\ [][NextBuild]_vars

----------------------------------------------------------------------------
(* SpecChain: a recorded chain of builder calls.  start is the DrawState   *)
(* the chain begins with, hist the calls made so far in order, ds the      *)
(* value the chain has produced.  A chain applies each builder at most     *)
(* once: its builders target different fields.                             *)

Kinds(h) == {h[i][1] : i \in 1..Len(h)}

InitChain ==
    /\ ds \in ChainStarts
    /\ prev = ds
    /\ call = <<"given">>
    /\ ncalls = 0
    /\ tmask = None
    /\ start = ds
    /\ hist = <<>>
    /\ PrimIdle

chain_multi_sample ==
    /\ Len(hist) < MaxChain
    /\ "multi_sample" \notin Kinds(hist)
    /\ ds' = DrawState_multi_sample(ds)
    /\ hist' = Append(hist, <<"multi_sample">>)
    /\ UNCHANGED <<prev, call, ncalls, tmask, start, primVars>>

chain_stencil ==
    /\ Len(hist) < MaxChain
    /\ "stencil" \notin Kinds(hist)
    /\ \E fun \in FunArgs, value \in RefArgs :
          /\ ds' = DrawState_stencil(ds, fun, value)
          /\ hist' = Append(hist, <<"stencil", fun, value>>)
    /\ UNCHANGED <<prev, call, ncalls, tmask, start, primVars>>

chain_depth ==
    /\ Len(hist) < MaxChain
    /\ "depth" \notin Kinds(hist)
    /\ \E fun \in FunArgs, write \in BOOLEAN :
          /\ ds' = DrawState_depth(ds, fun, write)
          /\ hist' = Append(hist, <<"depth", fun, write>>)
    /\ UNCHANGED <<prev, call, ncalls, tmask, start, primVars>>

chain_scissor ==
    /\ Len(hist) < MaxChain
    /\ "scissor" \notin Kinds(hist)
    /\ \E r \in ScissorArgs :
          /\ ds' = DrawState_scissor(ds, r[1], r[2], r[3], r[4])
          /\ hist' = Append(hist, <<"scissor", r[1], r[2], r[3], r[4]>>)
    /\ UNCHANGED <<prev, call, ncalls, tmask, start, primVars>>

chain_blend ==
    /\ Len(hist) < MaxChain
    /\ "blend" \notin Kinds(hist)
    /\ \E preset \in BlendPreset :
          /\ ds' = DrawState_blend(ds, preset)
          /\ hist' = Append(hist, <<"blend", preset>>)
    /\ UNCHANGED <<prev, call, ncalls, tmask, start, primVars>>

NextChain ==
    chain_multi_sample \/ chain_stencil \/ chain_depth \/ chain_scissor
        \/ chain_blend

SpecChain == InitChain /\ [][NextChain]_vars

----------------------------------------------------------------------------
(* SpecPrim: the constructors of the state primitives.  pop is the last    *)
(* constructor or method called, pargs its arguments, pin the value it was *)
(* called on (None for a constructor), pout the value it returned and rops *)
(* the calls that produced pout when it is a Rasterizer; ncalls counts the *)
(* calls.                                                                  *)

AnyRasterizer ==
    [front_face : FrontFace,
     cull_face : CullFace,
     method : {<<"Fill">>},
     offset : {None},
     samples : {None}]
    \cup
    [front_face : FrontFace,
     cull_face : CullFace,
     method : {<<"Point">>, <<"Line", 2>>},
     offset : {Some(<<1, 2>>)},
     samples : {Some(MultiSample)}]

MaskArgs == (0..Min(MaxMask, Stencil_max_value)) \cup {Stencil_max_value}
OpArgs == {StencilOpSeq[i] : i \in 1..Min(NumOps, Len(StencilOpSeq))}
SlopeArgs == (0 - MaxSlope)..MaxSlope
UnitArgs == 0..MaxUnits

InitPrim ==
    /\ ds = DrawState_new
    /\ prev = ds
    /\ call = <<"given">>
    /\ ncalls = 0
    /\ tmask = None
    /\ start = ds
    /\ hist = <<>>
    /\ pop = "given"
    /\ pargs = <<>>
    /\ pin = None
    /\ pout \in AnyRasterizer
    /\ rops = <<"given">>

new_fill ==
    /\ ncalls < MaxConstr
    /\ ncalls' = ncalls + 1
    /\ pop' = "new_fill"
    /\ pargs' = <<>>
    /\ pin' = None
    /\ pout' = Rasterizer_new_fill
    /\ rops' = <<"new_fill">>
    /\ UNCHANGED <<ds, prev, call, tmask, start, hist>>

with_cull_back ==
    /\ rops # <<>>
    /\ Len(rops) <= MaxRastOps
    /\ pop' = "with_cull_back"
    /\ pargs' = <<>>
    /\ pin' = Some(pout)
    /\ pout' = Rasterizer_with_cull_back(pout)
    /\ rops' = Append(rops, "with_cull_back")
    /\ ncalls' = ncalls + 1
    /\ UNCHANGED <<ds, prev, call, tmask, start, hist>>

with_offset ==
    /\ rops # <<>>
    /\ Len(rops) <= MaxRastOps
    /\ \E slope \in SlopeArgs, units \in UnitArgs :
          /\ pop' = "with_offset"
          /\ pargs' = <<slope, units>>
          /\ pin' = Some(pout)
          /\ pout' = Rasterizer_with_offset(pout, slope, units)
          /\ rops' = Append(rops, "with_offset")
    /\ ncalls' = ncalls + 1
    /\ UNCHANGED <<ds, prev, call, tmask, start, hist>>

stencil_new ==
    /\ ncalls < MaxConstr
    /\ ncalls' = ncalls + 1
    /\ \E fun \in Comparison, mask \in MaskArgs, ops \in OpArgs \X OpArgs \X OpArgs :
          /\ pop' = "Stencil_new"
          /\ pargs' = <<fun, mask, ops>>
          /\ pin' = None
          /\ pout' = Stencil_new(fun, mask, ops)
          /\ rops' = <<>>
    /\ UNCHANGED <<ds, prev, call, tmask, start, hist>>

blend_new ==
    /\ ncalls < MaxConstr
    /\ ncalls' = ncalls + 1
    /\ \E eq \in Equation, src \in Factor, dst \in Factor :
          /\ pop' = "Blend_new"
          /\ pargs' = <<eq, src, dst>>
          /\ pin' = None
          /\ pout' = Blend_new(eq, src, dst)
          /\ rops' = <<>>
    /\ UNCHANGED <<ds, prev, call, tmask, start, hist>>

NextPrim == new_fill \/ with_cull_back \/ with_offset \/ stencil_new \/ blend_new

SpecPrim == InitPrim /\ [][NextPrim]_vars

----------------------------------------------------------------------------
(* Properties.                                                             *)

\* The flag of color target i (0-based).
ColorFlag(i) == <<"COLOR0", "COLOR1", "COLOR2", "COLOR3">>[i + 1]

\* The planes a DrawState enables, read off its optional fields.
EnabledPlanes(s) ==
    {f \in MaskFlags :
        \/ f = "STENCIL" /\ s.stencil # None
        \/ f = "DEPTH" /\ s.depth # None
        \/ \E i \in 0..3 : f = ColorFlag(i) /\ s.blend[i + 1] # None}

\* s with the fields that are no plane of the mask set as new() sets them.
PlanesOnly(s) ==
    [s EXCEPT !.primitive = [front_face |-> "CounterClockwise",
                             method |-> <<"Fill", "Back">>,
                             offset |-> None],
              !.multi_sample = None,
              !.scissor = None,
              !.ref_values = [stencil |-> <<0, 0>>, blend |-> <<0, 0, 0, 0>>]]

\* C1: the mask get_target_mask returns for a DrawState is exactly STENCIL
\* if stencil is Some, DEPTH if depth is Some and COLOR_i for each blend[i]
\* that is Some; it is the mask of the same state with the rasterizer,
\* multisample, scissor and reference values reset, and it is empty for the
\* default state.
C1_MaskDerivation ==
    is_some(tmask) =>
        /\ unwrap(tmask) = EnabledPlanes(ds)
        /\ unwrap(tmask) = get_target_mask(PlanesOnly(ds))
        /\ (call = <<"new">> => unwrap(tmask) = {})

\* C1 witness: the mask of a state with stencil, blend[0] and blend[2] set
\* and nothing else, whose other fields differ from the default, was asked
\* for and is {STENCIL, COLOR0, COLOR2}.
C1_Witness ==
    /\ tmask = Some({"STENCIL", "COLOR0", "COLOR2"})
    /\ is_some(ds.stencil) /\ ~is_some(ds.depth)
    /\ is_some(ds.blend[1]) /\ ~is_some(ds.blend[2])
    /\ is_some(ds.blend[3]) /\ ~is_some(ds.blend[4])
    /\ is_some(ds.scissor) /\ is_some(ds.multi_sample)
    /\ ds.ref_values.stencil # <<0, 0>>

\* C2: the state DrawState::new() returns has fill rasterization with a
\* counter-clockwise front face and back-face culling, no polygon offset,
\* no multisampling, no scissor, stencil, depth or blend in any of the 4
\* slots, stencil references (0,0) and blend color [0,0,0,0].
C2_DefaultInert ==
    call = <<"new">> =>
        /\ ds.primitive.method = <<"Fill", "Back">>
        /\ ds.primitive.front_face = "CounterClockwise"
        /\ ds.primitive.offset = None
        /\ ds.multi_sample = None
        /\ ds.scissor = None
        /\ ds.stencil = None
        /\ ds.depth = None
        /\ DOMAIN ds.blend = 1..4
        /\ \A i \in 1..4 : ds.blend[i] = None
        /\ ds.ref_values.stencil = <<0, 0>>
        /\ ds.ref_values.blend = <<0, 0, 0, 0>>
        /\ DOMAIN ds =
              {"primitive", "multi_sample", "scissor", "stencil", "depth",
               "blend", "ref_values"}

\* C2 witness: new() was called while the caller held a state with every
\* stage set.
C2_Witness ==
    /\ call = <<"new">>
    /\ is_some(prev.stencil) /\ is_some(prev.depth) /\ is_some(prev.scissor)
    /\ \A i \in 1..4 : is_some(prev.blend[i])
    /\ prev.ref_values.stencil # <<0, 0>>

\* C3: after stencil(fun, v) the stencil field is Some(st) with st.front
\* equal to st.back, each side having the given fun, both masks 255 (all
\* 8 bits) and Keep for the three operations, and ref_values.stencil is
\* (v, v).
C3_SymmetricStencilBuilder ==
    call[1] = "stencil" =>
        /\ is_some(ds.stencil)
        /\ LET st == unwrap(ds.stencil)
               fun == call[2]
           IN  /\ st.front = st.back
               /\ \A side \in {st.front, st.back} :
                     /\ side.fun = fun
                     /\ side.mask_read = 2^8 - 1
                     /\ side.mask_write = 2^8 - 1
                     /\ side.op_fail = "Keep"
                     /\ side.op_depth_fail = "Keep"
                     /\ side.op_pass = "Keep"
        /\ ds.ref_values.stencil = <<call[3], call[3]>>

\* C3 witness: stencil(fun, 1) was called on a state whose stencil sides
\* differed and whose stencil references were (3, 4).
C3_Witness ==
    /\ call[1] = "stencil"
    /\ call[3] = 1
    /\ is_some(prev.stencil)
    /\ unwrap(prev.stencil).front # unwrap(prev.stencil).back
    /\ prev.ref_values.stencil = <<3, 4>>

\* The DrawState a sequence of builder calls returns for s.
RECURSIVE Replay(_, _)
Replay(s, h) == IF h = <<>> THEN s ELSE Replay(Apply(s, Head(h)), Tail(h))

\* The orders in which n calls can be made.
Orders(n) == {p \in [1..n -> 1..n] : \A i, j \in 1..n : p[i] = p[j] => i = j}

\* C4: builders that target different fields commute: the calls of a chain
\* of different builders, made on the same starting DrawState in any other
\* order, return the DrawState the chain returned.
C4_BuildersCommute ==
    Cardinality(Kinds(hist)) = Len(hist) =>
        \A p \in Orders(Len(hist)) :
            Replay(start, [i \in 1..Len(hist) |-> hist[p[i]]]) = ds

\* C4 witness: depth, scissor and stencil were called in this order on a
\* state that had a depth and a stencil test and differing references.
C4_Witness ==
    /\ Len(hist) = 3
    /\ hist[1][1] = "depth" /\ hist[2][1] = "scissor" /\ hist[3][1] = "stencil"
    /\ is_some(start.depth) /\ is_some(start.stencil) /\ is_some(start.scissor)
    /\ start.ref_values.stencil = <<3, 4>>
    /\ ds # start

\* The (equation, source, destination) triple of a blend channel.
Triple(ch) == <<ch.equation, ch.source, ch.destination>>

\* A factor as the preset table writes it: a bare blend value stands for
\* ZeroPlus of it.
TableFactor(t) ==
    IF Len(t) = 1 /\ t[1] \in BlendValue THEN <<"ZeroPlus", t[1]>> ELSE t

\* The preset table: per preset and channel, equation, source, destination.
PresetTable(p) ==
    CASE p = "Add" ->
            [color |-> <<"Add", <<"One">>, <<"One">>>>,
             alpha |-> <<"Add", <<"One">>, <<"One">>>>]
      [] p = "Multiply" ->
            [color |-> <<"Add", <<"DestColor">>, <<"Zero">>>>,
             alpha |-> <<"Add", <<"DestAlpha">>, <<"Zero">>>>]
      [] p = "Alpha" ->
            [color |-> <<"Add", <<"SourceAlpha">>, <<"OneMinus", "SourceAlpha">>>>,
             alpha |-> <<"Add", <<"One">>, <<"One">>>>]
      [] p = "Invert" ->
            [color |-> <<"Sub", <<"ConstColor">>, <<"SourceColor">>>>,
             alpha |-> <<"Add", <<"Zero">>, <<"One">>>>]

TableTriple(p, ch) ==
    LET t == PresetTable(p)[ch]
    IN  <<t[1], TableFactor(t[2]), TableFactor(t[3])>>

\* The constant of preset::blend named after a preset.
PresetConst(p) ==
    CASE p = "Add" -> blend_ADD
      [] p = "Multiply" -> blend_MULTIPLY
      [] p = "Alpha" -> blend_ALPHA
      [] p = "Invert" -> blend_INVERT

\* C5: the Blend that blend(P) installs and the constant preset::blend::P
\* both have, on the color and on the alpha channel, the equation, source
\* and destination the preset table gives for P.
C5_PresetValues ==
    call[1] = "blend" =>
        /\ is_some(ds.blend[1])
        /\ \A ch \in {"color", "alpha"} :
              /\ Triple(unwrap(ds.blend[1])[ch]) = TableTriple(call[2], ch)
              /\ Triple(PresetConst(call[2])[ch]) = TableTriple(call[2], ch)

\* C5 witness: blend(Invert) was called.
C5_Witness ==
    /\ call = <<"blend", "Invert">>
    /\ is_some(ds.blend[1])
    /\ unwrap(ds.blend[1]).color.equation = "Sub"

\* C6: blend(p) sets blend[0] to Some of the preset's value and leaves
\* blend[1..3], the rasterizer, multisample, scissor, stencil, depth and
\* reference values as they were; the target mask of the result is the
\* mask of the state it was called on with COLOR0 added.
C6_BlendFrame ==
    call[1] = "blend" =>
        /\ is_some(ds.blend[1])
        /\ unwrap(ds.blend[1]).color = PresetConst(call[2]).color
        /\ unwrap(ds.blend[1]).alpha = PresetConst(call[2]).alpha
        /\ \A i \in 2..4 : ds.blend[i] = prev.blend[i]
        /\ ds.primitive = prev.primitive
        /\ ds.multi_sample = prev.multi_sample
        /\ ds.scissor = prev.scissor
        /\ ds.stencil = prev.stencil
        /\ ds.depth = prev.depth
        /\ ds.ref_values = prev.ref_values
        /\ get_target_mask(ds) = get_target_mask(prev) \cup {"COLOR0"}

\* C6 witness: blend was called on a state with blend[0] and blend[2]
\* empty, blend[1] and blend[3] set, and stencil, depth and scissor set.
C6_Witness ==
    /\ call[1] = "blend"
    /\ ~is_some(prev.blend[1]) /\ is_some(prev.blend[2])
    /\ ~is_some(prev.blend[3]) /\ is_some(prev.blend[4])
    /\ is_some(prev.stencil) /\ is_some(prev.depth) /\ is_some(prev.scissor)
    /\ get_target_mask(ds) = {"STENCIL", "DEPTH", "COLOR0", "COLOR1", "COLOR3"}

\* C9: the Blend read back from blend[0] after blend(p) is the one blend(p)
\* installs in any other DrawState, and calling blend(p) again returns the
\* same DrawState.
C9_PresetPureIdempotent ==
    call[1] = "blend" =>
        /\ \A s \in ChainStarts \cup {start} :
              DrawState_blend(s, call[2]).blend[1] = ds.blend[1]
        /\ DrawState_blend(ds, call[2]) = ds

\* C9 witness: blend(p) was called a second time with the same preset on a
\* state that has other blend slots set, and returned its input.
C9_Witness ==
    /\ call[1] = "blend"
    /\ ncalls = 2
    /\ prev = ds
    /\ is_some(ds.blend[3])
    /\ ~is_some(ds.blend[2])

----------------------------------------------------------------------------
(* Properties of the state primitives, under SpecPrim.                     *)

\* C7: Blend::new(eq, src, dst) returns a Blend whose color and alpha
\* channels are equal, both with equation eq, source src, destination dst.
C7_SymmetricBlendNew ==
    pop = "Blend_new" =>
        /\ pout.color = pout.alpha
        /\ \A ch \in {pout.color, pout.alpha} :
              /\ ch.equation = pargs[1]
              /\ ch.source = pargs[2]
              /\ ch.destination = pargs[3]

\* C7 witness: Blend::new was called with an equation and two factors that
\* all differ from BlendChannel's defaults and from each other.
C7_Witness ==
    /\ pop = "Blend_new"
    /\ pargs = <<"RevSub", <<"OneMinus", "ConstAlpha">>, <<"SourceAlphaSaturated">>>>
    /\ pout.alpha.equation = "RevSub"

\* C8: Stencil::new(fun, mask, (op_fail, op_depth_fail, op_pass)) returns a
\* stencil state whose front and back sides are equal, each with the given
\* fun, both masks equal to mask and the three operations in that order.
C8_SymmetricStencilNew ==
    pop = "Stencil_new" =>
        /\ pout.front = pout.back
        /\ \A side \in {pout.front, pout.back} :
              /\ side.fun = pargs[1]
              /\ side.mask_read = pargs[2]
              /\ side.mask_write = pargs[2]
              /\ side.op_fail = pargs[3][1]
              /\ side.op_depth_fail = pargs[3][2]
              /\ side.op_pass = pargs[3][3]

\* C8 witness: Stencil::new was called with three different operations and
\* a mask that is not the default.
C8_Witness ==
    /\ pop = "Stencil_new"
    /\ pargs = <<"Greater", 1, <<"Replace", "Keep", "Zero">>>>
    /\ pout.back.op_fail = "Replace"

Range(f) == {f[i] : i \in DOMAIN f}

\* C10: Rasterizer::new_fill() returns method Fill, front face
\* CounterClockwise, no offset, no samples and cull face Nothing; the cull
\* face stays Nothing until with_cull_back is called; with_cull_back sets
\* the cull face to Back and changes no other field.
C10_NewFillAndCullBack ==
    /\ pop = "new_fill" =>
          /\ pout.method = <<"Fill">>
          /\ pout.front_face = "CounterClockwise"
          /\ pout.offset = None
          /\ pout.samples = None
          /\ pout.cull_face = "Nothing"
    /\ (rops # <<>> /\ rops[1] = "new_fill" /\ "with_cull_back" \notin Range(rops)) =>
          pout.cull_face = "Nothing"
    /\ pop = "with_cull_back" =>
          /\ pout.cull_face = "Back"
          /\ pout.front_face = unwrap(pin).front_face
          /\ pout.method = unwrap(pin).method
          /\ pout.offset = unwrap(pin).offset
          /\ pout.samples = unwrap(pin).samples

\* C10 witness: new_fill().with_offset(-1.0, 1).with_cull_back() was
\* evaluated: the rasterizer culled nothing before the last call, and
\* culls the back face and keeps the offset after it.
C10_Witness ==
    /\ rops = <<"new_fill", "with_offset", "with_cull_back">>
    /\ pop = "with_cull_back"
    /\ unwrap(pin).cull_face = "Nothing"
    /\ pout.cull_face = "Back"
    /\ pout.offset = Some(<<0 - 1, 1>>)

----------------------------------------------------------------------------
(* Properties of the builders: what a call changes, and the states the     *)
(* builders reach.                                                         *)

DrawStateFields ==
    {"primitive", "multi_sample", "scissor", "stencil", "depth", "blend",
     "ref_values"}

\* ds agrees with prev on every field that is not in changed.
SameExcept(changed) == \A f \in DrawStateFields \ changed : ds[f] = prev[f]

\* C11: each builder changes only the field it names: depth(fun, write)
\* sets depth to Some{fun, write}, scissor(x, y, w, h) sets scissor to
\* Some(Rect{x, y, w, h}), multi_sample() sets the multisample toggle, and
\* stencil(fun, v) changes stencil and ref_values.stencil and leaves
\* ref_values.blend; every other field is as it was.
C11_BuilderFrames ==
    /\ call[1] = "depth" =>
          /\ ds.depth = <<[fun |-> call[2], write |-> call[3]]>>
          /\ SameExcept({"depth"})
    /\ call[1] = "scissor" =>
          /\ ds.scissor = <<[x |-> call[2], y |-> call[3], w |-> call[4], h |-> call[5]]>>
          /\ SameExcept({"scissor"})
    /\ call[1] = "multi_sample" =>
          /\ ds.multi_sample # <<>>
          /\ SameExcept({"multi_sample"})
    /\ call[1] = "stencil" =>
          /\ ds.stencil # <<>>
          /\ ds.ref_values.blend = prev.ref_values.blend
          /\ SameExcept({"stencil", "ref_values"})

\* C11 witness: stencil(fun, v) was called on a state whose blend color is
\* not zero and whose other stages are set, and changed the references.
C11_Witness ==
    /\ call[1] = "stencil"
    /\ prev.ref_values.blend = <<1, 0, 0, 1>>
    /\ ds.ref_values.stencil # prev.ref_values.stencil
    /\ is_some(prev.depth) /\ is_some(prev.scissor) /\ is_some(prev.multi_sample)
    /\ is_some(prev.blend[2])

\* A step keeps every stage that is set, and so every plane of the mask.
StagesKept ==
    /\ is_some(ds.stencil) => is_some(ds'.stencil)
    /\ is_some(ds.depth) => is_some(ds'.depth)
    /\ is_some(ds.scissor) => is_some(ds'.scissor)
    /\ is_some(ds.multi_sample) => is_some(ds'.multi_sample)
    /\ \A i \in 1..4 : is_some(ds.blend[i]) => is_some(ds'.blend[i])
    /\ get_target_mask(ds) \subseteq get_target_mask(ds')

\* C12: no builder call disables a stage: a stencil, depth, scissor,
\* multisample or blend[i] that is Some before a call of multi_sample,
\* stencil, depth, scissor or blend is Some after it, and the target mask
\* after the call contains the target mask before it.
C12_NoBuilderDisables == [][StagesKept]_vars

\* C12 witness: a second builder call was made on a state with every
\* stage set, and every stage is still set.
C12_Witness ==
    /\ ncalls = 2
    /\ call[1] \in {"multi_sample", "stencil", "depth", "scissor", "blend"}
    /\ \A s \in {prev, ds} :
          /\ is_some(s.stencil) /\ is_some(s.depth) /\ is_some(s.scissor)
          /\ is_some(s.multi_sample)
          /\ \A i \in 1..4 : is_some(s.blend[i])
    /\ get_target_mask(ds) = MaskFlags

\* C13: in every state built from new() by builder calls, blend[1],
\* blend[2] and blend[3] are None and ref_values.blend is [0,0,0,0]; the
\* target mask is within {STENCIL, DEPTH, COLOR0} and holds none of COLOR1,
\* COLOR2, COLOR3.
C13_BuiltStatesUseSlotZero ==
    /\ \A i \in 2..4 : ds.blend[i] = <<>>
    /\ ds.ref_values.blend = <<0, 0, 0, 0>>
    /\ get_target_mask(ds) \subseteq {"STENCIL", "DEPTH", "COLOR0"}
    /\ is_some(tmask) =>
          /\ unwrap(tmask) \subseteq {"STENCIL", "DEPTH", "COLOR0"}
          /\ unwrap(tmask) \cap {"COLOR1", "COLOR2", "COLOR3"} = {}

\* C13 witness: stencil, depth and blend were all called on the state of
\* new(), and the mask asked for is {STENCIL, DEPTH, COLOR0}.
C13_Witness ==
    /\ start = DrawState_new
    /\ ncalls = 3
    /\ is_some(ds.stencil) /\ is_some(ds.depth) /\ is_some(ds.blend[1])
    /\ tmask = Some({"STENCIL", "DEPTH", "COLOR0"})

\* A stencil side as the stencil builder writes it for fun.
SimpleSide(side, fun) ==
    /\ side.fun = fun
    /\ side.mask_read = 255
    /\ side.mask_write = 255
    /\ side.op_fail = "Keep"
    /\ side.op_depth_fail = "Keep"
    /\ side.op_pass = "Keep"

\* C14: in every state built from new() by builder calls, the two stencil
\* references are equal; they are (0,0) while stencil is None; a stencil
\* that is Some has equal front and back sides with masks 255 and Keep for
\* the three operations; and after stencil(f2, v2) the stencil field is
\* that of f2 and the references are (v2, v2), whatever an earlier
\* stencil(f1, v1) had set.
C14_StencilOfBuiltStates ==
    /\ ds.ref_values.stencil[1] = ds.ref_values.stencil[2]
    /\ ds.stencil = <<>> => ds.ref_values.stencil = <<0, 0>>
    /\ ds.stencil # <<>> =>
          /\ ds.stencil[1].front = ds.stencil[1].back
          /\ \E fun \in Comparison : SimpleSide(ds.stencil[1].front, fun)
          /\ \E fun \in Comparison : SimpleSide(ds.stencil[1].back, fun)
    /\ call[1] = "stencil" =>
          /\ ds.stencil # <<>>
          /\ SimpleSide(ds.stencil[1].front, call[2])
          /\ SimpleSide(ds.stencil[1].back, call[2])
          /\ ds.ref_values.stencil = <<call[3], call[3]>>

\* C14 witness: after stencil(f1, v1) and one more builder call on the
\* state of new(), stencil(f2, v2) was called with f2 # f1 and v2 # v1.
C14_Witness ==
    /\ start = DrawState_new
    /\ ncalls = 3
    /\ call[1] = "stencil"
    /\ is_some(prev.stencil)
    /\ unwrap(prev.stencil).front.fun # call[2]
    /\ unwrap(prev.stencil).back.fun # call[2]
    /\ prev.ref_values.stencil # <<call[3], call[3]>>
    /\ is_some(prev.depth)

====
